---- MODULE Spec2Model ----
(***************************************************************************)
(* Model of src/CustomerInfoDatabase.py: the CustomerApp form (five text   *)
(* entries and a contact-method combobox), its validation and its two      *)
(* database operations on customers.db.  Text is modelled as a sequence of *)
(* one-character strings, so that str.strip() and the regular expression   *)
(* of is_valid_email are computed character by character.                  *)
(***************************************************************************)
EXTENDS Integers, Sequences, FiniteSets, TLC

VARIABLES
    pc,              \* "off": no process / process ended; "mainloop": root.mainloop() is running
    widgets,         \* TRUE once create_widgets has built the form of the running process
    rootDestroyed,   \* TRUE once root.destroy() was called in the last start-up
    form,            \* contents of the five Entry widgets
    contact_method,  \* contact_method_var, the combobox selection
    db,              \* the file customers.db: schema, rows, AUTOINCREMENT sequence
    openConns,       \* connections an operation had opened and not closed when it ended
    last,            \* what the last operation did: notifications shown, exceptions escaped
    probe            \* an e-mail text handed to the e-mail check (specification SpecEmail)

vars == <<pc, widgets, rootDestroyed, form, contact_method, db, openConns, last, probe>>

----------------------------------------------------------------------------
(* Bounds *)

\* the table holds at most this many rows: Submit is disabled beyond it
MaxRows == 2

\* longest e-mail text handed to the e-mail check in SpecEmail
MaxLen == 5

----------------------------------------------------------------------------
(* Characters and text *)

NL == "\n"

Letters ==
    {"a","b","c","d","e","f","g","h","i","j","k","l","m",
     "n","o","p","q","r","s","t","u","v","w","x","y","z",
     "A","B","C","D","E","F","G","H","I","J","K","L","M",
     "N","O","P","Q","R","S","T","U","V","W","X","Y","Z"}

Digits == {"0","1","2","3","4","5","6","7","8","9"}

\* the characters str.strip() removes (those of them the model's texts use)
Whitespace == {" ", "\t", NL, "\r"}

RECURSIVE LStrip(_)
LStrip(s) ==
    IF s /= <<>> /\ Head(s) \in Whitespace THEN LStrip(Tail(s)) ELSE s

RECURSIVE RStrip(_)
RStrip(s) ==
    IF s /= <<>> /\ s[Len(s)] \in Whitespace
    THEN RStrip(SubSeq(s, 1, Len(s) - 1))
    ELSE s

\* a plausible slip: only leading whitespace removed
StripLeftOnly(s) == LStrip(s)

\* str.strip() with no argument
Strip(s) == RStrip(LStrip(s))

----------------------------------------------------------------------------
(* The regular expression of is_valid_email                                *)

\* [a-zA-Z0-9_.+-]
LocalClass == Letters \cup Digits \cup {"_", ".", "+", "-"}

\* [a-zA-Z0-9-]
LabelClass == Letters \cup Digits \cup {"-"}

\* [a-zA-Z0-9-.]
TailClass == Letters \cup Digits \cup {"-", "."}

Plus(class) == [kind |-> "plus", class |-> class, ch |-> ""]
Lit(c) == [kind |-> "lit", class |-> {}, ch |-> c]
EndAnchor == [kind |-> "end", class |-> {}, ch |-> ""]

\* ^[a-zA-Z0-9_.+-]+@[a-zA-Z0-9-]+\.[a-zA-Z0-9-.]+$   (the ^ is re.match itself)
EmailPattern ==
    << Plus(LocalClass), Lit("@"), Plus(LabelClass), Lit("."), Plus(TailClass), EndAnchor >>

\* re.match: does pat, from its item k on, match s from position i on.
\* "$" matches at the end of the text and just before a newline that ends it.
RECURSIVE MatchFrom(_, _, _, _)
MatchFrom(pat, k, s, i) ==
    IF k > Len(pat) THEN TRUE
    ELSE LET it == pat[k] IN
         CASE it.kind = "lit" ->
                  /\ i <= Len(s)
                  /\ s[i] = it.ch
                  /\ MatchFrom(pat, k + 1, s, i + 1)
           [] it.kind = "plus" ->
                  \E n \in 1..(Len(s) - i + 1) :
                      /\ \A j \in i..(i + n - 1) : s[j] \in it.class
                      /\ MatchFrom(pat, k + 1, s, i + n)
           [] it.kind = "end" ->
                  /\ \/ i = Len(s) + 1
                     \/ i = Len(s) /\ s[i] = NL
                  /\ MatchFrom(pat, k + 1, s, i)

re_match(pat, s) == MatchFrom(pat, 1, s, 1)

\* a plausible slip: the last class written without the dot, [a-zA-Z0-9-]+
is_valid_email_one_dot(email) ==
    re_match(<< Plus(LocalClass), Lit("@"), Plus(LabelClass), Lit("."),
                Plus(LabelClass), EndAnchor >>, email)

is_valid_email(email) == re_match(EmailPattern, email)

----------------------------------------------------------------------------
(* The form                                                                *)

Fields == {"name", "birthday", "email", "phone", "address"}

\* contact_options of create_widgets
ContactOptions == <<"Email", "Phone", "Mail">>

EmptyForm ==
    [name |-> <<>>, birthday |-> <<>>, email |-> <<>>, phone |-> <<>>, address |-> <<>>]

\* Contents a user may leave in the five entries before pressing Submit.
Forms ==
    { EmptyForm,
      \* name of blanks only
      [name |-> <<" ", " ">>, birthday |-> <<>>,
       email |-> <<"a","@","b",".","c","o">>, phone |-> <<>>, address |-> <<>>],
      \* e-mail of whitespace only
      [name |-> <<"A","l">>, birthday |-> <<"1","9","9","0">>,
       email |-> <<" ", NL>>, phone |-> <<"5">>, address |-> <<>>],
      \* e-mail without a dot in the domain
      [name |-> <<"A","l">>, birthday |-> <<>>,
       email |-> <<"a","@","b">>, phone |-> <<"5"," ">>, address |-> <<"M">>],
      \* e-mail without an at-sign
      [name |-> <<"J","o">>, birthday |-> <<>>,
       email |-> <<"n","o","-","a","t",".","c","o","m">>, phone |-> <<>>, address |-> <<>>],
      \* everything filled in, padded with whitespace
      [name |-> <<" ","J","o"," ">>, birthday |-> <<" ","1","9","9","0">>,
       email |-> <<" ","a","@","b",".","c","o",NL>>, phone |-> <<"5","5","5"," ">>,
       address |-> <<" ","1"," ","M"," ">>],
      \* required fields only
      [name |-> <<"A","l">>, birthday |-> <<>>,
       email |-> <<"j","+","t","@","e","-","f",".","o","r","g">>,
       phone |-> <<>>, address |-> <<>>],
      \* an e-mail with an empty domain segment
      [name |-> <<"J","o">>, birthday |-> <<>>,
       email |-> <<"a","@","b",".",".","c">>, phone |-> <<>>, address |-> <<"M">>] }

Notice(level, title) == [level |-> level, title |-> title]

----------------------------------------------------------------------------
(* customers.db as SQLite keeps it                                          *)

NoTable == <<>>

\* the columns of CREATE TABLE ... customers
CustomersSchema ==
    << "id INTEGER PRIMARY KEY AUTOINCREMENT", "name TEXT NOT NULL", "birthday TEXT",
       "email TEXT NOT NULL", "phone TEXT", "address TEXT", "contact_method TEXT" >>

EmptyDb == [schema |-> NoTable, rows |-> <<>>, seq |-> 0]

Ids(d) == { d.rows[i].id : i \in 1..Len(d.rows) }

MaxOf(S) == CHOOSE x \in S : \A y \in S : y <= x

\* a plausible slip: CREATE TABLE after DROP TABLE IF EXISTS
CreateTableAfterDrop(d) == [schema |-> CustomersSchema, rows |-> <<>>, seq |-> 0]

\* CREATE TABLE IF NOT EXISTS customers (...)
CreateTableIfNotExists(d) ==
    IF d.schema /= NoTable THEN d ELSE [d EXCEPT !.schema = CustomersSchema]

\* INSERT INTO customers (name, ...) VALUES (?, ...): the id column is left to
\* AUTOINCREMENT, one more than the largest id ever used in the table
InsertCustomer(d, v) ==
    LET id == MaxOf(Ids(d) \cup {d.seq}) + 1
    IN  [d EXCEPT !.rows = Append(d.rows, [v EXCEPT !.id = id]), !.seq = id]

----------------------------------------------------------------------------
(* Control flow of the two try blocks                                      *)

\* where a storage fault (sqlite3.Error) is raised in a database operation
Faults == {"none", "connect", "execute", "commit"}

\* step ran to its end: it is in the block and nothing up to it raised
Ran(steps, raises, step) ==
    \E i \in 1..Len(steps) :
        /\ steps[i] = step
        /\ \A j \in 1..i : steps[j] \notin raises

\* some step of the block raised
Failed(steps, raises) == \E i \in 1..Len(steps) : steps[i] \in raises

\* the try block of setup_database
SetupTrySteps == <<"connect", "execute", "commit">>

\* a plausible slip: the form is cleared before the commit
SubmitTryStepsClearFirst == <<"connect", "execute", "clear_form", "commit", "showinfo">>

\* the try block of submit_data
SubmitTrySteps == <<"connect", "execute", "commit", "showinfo", "clear_form">>

\* a plausible slip: the handler reports the error and leaves the window open
setup_except_keep_window ==
    [shown |-> <<Notice("error", "Database Error")>>, destroy |-> FALSE]

\* except sqlite3.Error of setup_database
setup_except ==
    [shown |-> <<Notice("error", "Database Error")>>, destroy |-> TRUE]

\* a plausible slip: conn.close() left out
setup_finally_no_close(connBound) ==
    [closed |-> FALSE, raised |-> IF connBound THEN "none" ELSE "UnboundLocalError"]

\* finally of setup_database: "if conn" reads a local that is unbound when
\* sqlite3.connect raised
setup_finally(connBound) ==
    IF connBound
    THEN [closed |-> TRUE, raised |-> "none"]
    ELSE [closed |-> FALSE, raised |-> "UnboundLocalError"]

\* finally of submit_data, the same statement
submit_finally(connBound) ==
    IF connBound
    THEN [closed |-> TRUE, raised |-> "none"]
    ELSE [closed |-> FALSE, raised |-> "UnboundLocalError"]

----------------------------------------------------------------------------
(* The operations of CustomerApp                                           *)

\* setup_database on file d.  fault: the step that raises sqlite3.Error.
\* ddlDurable: whether a CREATE TABLE whose commit raised is in the file all the
\* same (sqlite3 runs DDL outside a transaction or not, by version).
setup_database(d, fault, ddlDurable) ==
    LET raises == {fault}
        connBound == Ran(SetupTrySteps, raises, "connect")
        created == /\ Ran(SetupTrySteps, raises, "execute")
                   /\ Ran(SetupTrySteps, raises, "commit") \/ ddlDurable
        failed == Failed(SetupTrySteps, raises)
        handler == IF failed THEN setup_except ELSE [shown |-> <<>>, destroy |-> FALSE]
        fin == setup_finally(connBound)
    IN  [db |-> IF created THEN CreateTableIfNotExists(d) ELSE d,
         failed |-> failed,
         shown |-> handler.shown,
         destroyed |-> handler.destroy,
         raised |-> fin.raised,
         leaked |-> IF connBound /\ ~fin.closed THEN 1 ELSE 0]

\* create_widgets on a root that was or was not destroyed: every widget
\* constructor on a destroyed root raises TclError, the first one at ttk.Frame
create_widgets(destroyed) ==
    IF destroyed
    THEN [built |-> FALSE, raised |-> "TclError"]
    ELSE [built |-> TRUE, raised |-> "none"]

\* a plausible slip: the required-field check left out
validate_format_only(name, email) ==
    IF ~is_valid_email(email) THEN "format" ELSE "ok"

\* a plausible slip: the e-mail format check left out
validate_required_only(name, email) ==
    IF name = <<>> \/ email = <<>> THEN "required" ELSE "ok"

\* the two checks of submit_data on the stripped name and e-mail
validate(name, email) ==
    IF name = <<>> \/ email = <<>> THEN "required"
    ELSE IF ~is_valid_email(email) THEN "format"
    ELSE "ok"

\* a plausible slip: the combobox is left as it was
clear_form_keep_selection(f, m) == [form |-> EmptyForm, contact_method |-> m]

\* clear_form
clear_form(f, m) == [form |-> EmptyForm, contact_method |-> ContactOptions[1]]

\* the values bound to the INSERT statement
Values(f, m) ==
    [id |-> 0,
     name |-> Strip(f.name), birthday |-> Strip(f.birthday), email |-> Strip(f.email),
     phone |-> Strip(f.phone), address |-> Strip(f.address), contact_method |-> m]

\* submit_data with form contents f, selection m, file d.
submit_data(f, m, d, fault) ==
    LET v == Values(f, m)
        verdict == validate(v.name, v.email)
        raises == {fault} \cup (IF d.schema = NoTable THEN {"execute"} ELSE {})
        connBound == Ran(SubmitTrySteps, raises, "connect")
        stored == /\ Ran(SubmitTrySteps, raises, "execute")
                  /\ Ran(SubmitTrySteps, raises, "commit")
        failed == Failed(SubmitTrySteps, raises)
        cleared == IF Ran(SubmitTrySteps, raises, "clear_form")
                   THEN clear_form(f, m)
                   ELSE [form |-> f, contact_method |-> m]
        fin == submit_finally(connBound)
    IN  IF verdict /= "ok"
        THEN [outcome |-> "ValidationFailed", db |-> d, form |-> f, contact_method |-> m,
              shown |-> <<Notice("warning", "Validation Error")>>,
              raised |-> "none", leaked |-> 0]
        ELSE [outcome |-> IF failed THEN "StoreFailed" ELSE "Committed",
              db |-> IF stored THEN InsertCustomer(d, v) ELSE d,
              form |-> cleared.form, contact_method |-> cleared.contact_method,
              shown |-> (IF Ran(SubmitTrySteps, raises, "showinfo")
                         THEN <<Notice("info", "Success")>> ELSE <<>>)
                        \o (IF failed THEN <<Notice("error", "Database Error")>> ELSE <<>>),
              raised |-> fin.raised,
              leaked |-> IF connBound /\ ~fin.closed THEN 1 ELSE 0]

----------------------------------------------------------------------------
(* State machine                                                           *)

NoOp ==
    [op |-> "none", fault |-> "none", outcome |-> "none", shown |-> <<>>,
     raised |-> "none", crashed |-> "none"]

NoProbe == [call |-> "none", email |-> <<>>, passed |-> FALSE]

Init ==
    /\ pc = "off"
    /\ widgets = FALSE
    /\ rootDestroyed = FALSE
    /\ form = EmptyForm
    /\ contact_method = ""
    /\ db = EmptyDb
    /\ openConns = 0
    /\ last = NoOp
    /\ probe = NoProbe

\* python CustomerInfoDatabase.py: tk.Tk(), CustomerApp.__init__, root.mainloop().
\* An exception that leaves __init__ ends the process.
Start(fault, ddlDurable) ==
    /\ pc = "off"
    /\ LET s == setup_database(db, fault, ddlDurable)
           w == IF s.raised /= "none"
                THEN [built |-> FALSE, raised |-> s.raised]
                ELSE create_widgets(s.destroyed)
       IN  /\ db' = s.db
           /\ openConns' = openConns + s.leaked
           /\ rootDestroyed' = s.destroyed
           /\ widgets' = w.built
           /\ form' = EmptyForm
           /\ contact_method' = IF w.built THEN ContactOptions[1] ELSE ""
           /\ pc' = IF w.built THEN "mainloop" ELSE "off"
           /\ last' = [op |-> "start", fault |-> fault,
                       outcome |-> IF s.failed THEN "SetupFailed" ELSE "SetupDone",
                       shown |-> s.shown, raised |-> s.raised, crashed |-> w.raised]
    /\ UNCHANGED probe

\* the user types into the entries and picks from the read-only combobox
Edit(f, m) ==
    /\ pc = "mainloop"
    /\ widgets
    /\ form' = f
    /\ contact_method' = m
    /\ last' = [NoOp EXCEPT !.op = "edit"]
    /\ UNCHANGED <<pc, widgets, rootDestroyed, db, openConns, probe>>

\* the Submit button: submit_data as a Tk callback.  An exception that leaves the
\* callback is reported by Tk and the main loop goes on.
Submit(fault) ==
    /\ pc = "mainloop"
    /\ widgets
    /\ Len(db.rows) < MaxRows
    /\ LET r == submit_data(form, contact_method, db, fault)
       IN  /\ db' = r.db
           /\ form' = r.form
           /\ contact_method' = r.contact_method
           /\ openConns' = openConns + r.leaked
           /\ last' = [op |-> "submit",
                       fault |-> IF r.outcome = "ValidationFailed" THEN "none" ELSE fault,
                       outcome |-> r.outcome, shown |-> r.shown, raised |-> r.raised,
                       crashed |-> "none"]
    /\ UNCHANGED <<pc, widgets, rootDestroyed>>

\* the user closes the window: mainloop returns and the process ends
Close ==
    /\ pc = "mainloop"
    /\ pc' = "off"
    /\ widgets' = FALSE
    /\ form' = EmptyForm
    /\ contact_method' = ""
    /\ last' = [NoOp EXCEPT !.op = "close"]
    /\ UNCHANGED <<rootDestroyed, db, openConns, probe>>

Next ==
    \/ \E fault \in Faults, ddlDurable \in BOOLEAN : Start(fault, ddlDurable)
    \/ \E f \in Forms, i \in 1..Len(ContactOptions) : Edit(f, ContactOptions[i])
    \/ \E fault \in Faults : Submit(fault) /\ UNCHANGED probe
    \/ Close

Spec == Init /\ [][Next]_vars

----------------------------------------------------------------------------
(* The e-mail check on every short text                                    *)

\* the characters of the texts: a letter, the two separators, a character of the
\* local part only, and a whitespace character
EmailChars == {"a", "@", ".", "+", NL}

Texts == UNION { [1..n -> EmailChars] : n \in 0..MaxLen }

\* the form of a started program, with a name and the text e as e-mail
InitEmail ==
    /\ pc = "mainloop"
    /\ widgets = TRUE
    /\ rootDestroyed = FALSE
    /\ form \in { [EmptyForm EXCEPT !.name = <<"A","l">>, !.email = e] : e \in Texts }
    /\ contact_method = ContactOptions[1]
    /\ db = CreateTableIfNotExists(EmptyDb)
    /\ openConns = 0
    /\ last = [NoOp EXCEPT !.op = "start", !.outcome = "SetupDone"]
    /\ probe = NoProbe

\* is_valid_email called on the text as typed
CheckEmail ==
    /\ probe.call = "none"
    /\ probe' = [call |-> "is_valid_email", email |-> form.email,
                 passed |-> is_valid_email(form.email)]
    /\ UNCHANGED <<pc, widgets, rootDestroyed, form, contact_method, db, openConns, last>>

\* the Submit button pressed on that form, the store working
SubmitEmail ==
    /\ probe.call = "none"
    /\ Submit("none")
    /\ probe' = [call |-> "submit", email |-> form.email,
                 passed |-> last'.outcome /= "ValidationFailed"]

NextEmail == CheckEmail \/ SubmitEmail

SpecEmail == InitEmail /\ [][NextEmail]_vars

----------------------------------------------------------------------------
(* What the properties speak of, stated without the operators above        *)

\* s consists of whitespace only: it is empty after trimming
IsBlank(s) == \A i \in 1..Len(s) : s[i] \in Whitespace

\* s without its leading and trailing whitespace
Trimmed(s) ==
    LET keep == { i \in 1..Len(s) : s[i] \notin Whitespace }
    IN  IF keep = {} THEN <<>>
        ELSE SubSeq(s, CHOOSE i \in keep : \A j \in keep : i <= j,
                       CHOOSE i \in keep : \A j \in keep : j <= i)

\* local@label.tail: local, label and tail not empty; local over letters, digits
\* and _ . + - ; label over letters, digits and - ; tail over letters, digits, -
\* and the dot
AcceptedEmail(s) ==
    \E i \in 2..Len(s) : \E j \in (i + 2)..(Len(s) - 1) :
        /\ s[i] = "@"
        /\ s[j] = "."
        /\ \A k \in 1..(i - 1) : s[k] \in Letters \cup Digits \cup {"_", ".", "+", "-"}
        /\ \A k \in (i + 1)..(j - 1) : s[k] \in Letters \cup Digits \cup {"-"}
        /\ \A k \in (j + 1)..Len(s) : s[k] \in Letters \cup Digits \cup {"-", "."}

\* local@domain: local as above; the domain has a dot and is made of segments of
\* letters, digits and hyphens, none of them empty, with dots between them
ClaimedEmail(s) ==
    \E i \in 2..(Len(s) - 1) :
        /\ s[i] = "@"
        /\ \A k \in 1..(i - 1) : s[k] \in Letters \cup Digits \cup {"_", ".", "+", "-"}
        /\ \A k \in (i + 1)..Len(s) : s[k] \in Letters \cup Digits \cup {"-", "."}
        /\ \E k \in (i + 1)..Len(s) : s[k] = "."
        /\ s[i + 1] /= "."
        /\ s[Len(s)] /= "."
        /\ \A k \in (i + 1)..(Len(s) - 1) : ~(s[k] = "." /\ s[k + 1] = ".")

\* s without one newline at its end
WithoutFinalNewline(s) ==
    IF s /= <<>> /\ s[Len(s)] = NL THEN SubSeq(s, 1, Len(s) - 1) ELSE s

ValidationWarning == <<Notice("warning", "Validation Error")>>

DatabaseError == Notice("error", "Database Error")

InRange(seq, x) == \E i \in 1..Len(seq) : seq[i] = x

----------------------------------------------------------------------------
(* Properties                                                              *)

\* C1: every row of the customers table has a non-empty name and an e-mail of
\* the accepted form local@label.tail, after any sequence of submit attempts.
C1_StoredRowsValid ==
    \A i \in 1..Len(db.rows) :
        /\ db.rows[i].name /= <<>>
        /\ AcceptedEmail(db.rows[i].email)

C1_Witness ==
    /\ Len(db.rows) >= 1
    /\ last.op = "submit"
    /\ last.outcome = "ValidationFailed"
    /\ form.email = <<"a","@","b">>

\* C2: a submit of a form whose name or e-mail is empty after trimming writes no
\* row, shows the "Validation Error" warning and leaves the five entries and the
\* selection as they were.
C2_EmptyRequiredRejected ==
    [][ (last'.op = "submit" /\ (IsBlank(form.name) \/ IsBlank(form.email)))
        => /\ db' = db
           /\ last'.shown = ValidationWarning
           /\ form' = form
           /\ contact_method' = contact_method ]_vars

C2_Witness ==
    /\ last.op = "submit"
    /\ last.shown = ValidationWarning
    /\ form.name = <<" ", " ">>
    /\ AcceptedEmail(form.email)
    /\ contact_method = "Mail"

C3_Examples ==
    /\ is_valid_email(<<"a","@","b",".","c","o">>)
    /\ is_valid_email(<<"j","o","h","n",".","d","o","e","+","t","a","g","@",
                        "e","x","a","m","p","l","e",".","o","r","g">>)
    /\ ~is_valid_email(<<"n","o","-","a","t","-","s","i","g","n",".","c","o","m">>)
    /\ ~is_valid_email(<<"a","@","b">>)

C4_StoreFailureKeepsForm ==
    [][ (last'.op = "submit" /\ last'.fault \in {"connect", "execute", "commit"})
        => /\ form' = form
           /\ contact_method' = contact_method
           /\ db' = db
           /\ last'.shown = <<DatabaseError>> ]_vars

C4_Witness ==
    /\ last.op = "submit"
    /\ last.fault = "commit"
    /\ last.outcome = "StoreFailed"
    /\ form.name = <<" ","J","o"," ">>
    /\ contact_method = "Phone"

\* C5: right after a submit whose insert succeeded (a row was added) the five
\* entries are empty and the selection reads "Email".
C5_SuccessClearsForm ==
    [][ Len(db'.rows) > Len(db.rows)
        => /\ \A f \in Fields : form'[f] = <<>>
           /\ contact_method' = "Email" ]_vars

C5_Witness ==
    /\ last.op = "submit"
    /\ last.outcome = "Committed"
    /\ Len(db.rows) >= 1
    /\ db.rows[Len(db.rows)].contact_method = "Phone"
    /\ contact_method = "Email"
    /\ form = EmptyForm

\* C6: a submit that passes validation and whose insert succeeds adds exactly one
\* row, holding the trimmed entries and the selection, with an id greater than
\* every id stored before; the rows stored before stay as they were.
C6_OneTrimmedRowAdded ==
    [][ (last'.op = "submit" /\ last'.outcome = "Committed")
        => /\ Len(db'.rows) = Len(db.rows) + 1
           /\ SubSeq(db'.rows, 1, Len(db.rows)) = db.rows
           /\ LET row == db'.rows[Len(db'.rows)]
              IN  /\ \A f \in Fields : row[f] = Trimmed(form[f])
                  /\ row.contact_method = contact_method
                  /\ \A i \in 1..Len(db.rows) : row.id > db.rows[i].id ]_vars

C6_Witness ==
    /\ last.op = "submit"
    /\ last.outcome = "Committed"
    /\ Len(db.rows) = 2
    /\ db.rows[2].id > db.rows[1].id
    /\ db.rows[2].name = <<"J","o">>
    /\ db.rows[2].address = <<"1"," ","M">>
    /\ db.rows[2].contact_method = "Phone"

\* C7: when setup_database fails with a storage fault the user is told, the
\* process ends without a form, and no submit can follow.
C7_SetupFailureEndsApp ==
    (last.op = "start" /\ last.fault /= "none")
        => /\ last.shown = <<DatabaseError>>
           /\ pc = "off"
           /\ ~widgets
           /\ ~ENABLED (\E fault \in Faults : Submit(fault))

C7_Witness ==
    /\ last.op = "start"
    /\ last.fault = "execute"
    /\ rootDestroyed
    /\ last.crashed = "TclError"
    /\ pc = "off"

\* C8: every storage fault in setup_database or submit_data is turned into a
\* "Database Error" message and no exception leaves the operation.
C8_NoExceptionEscapes ==
    (last.op \in {"start", "submit"} /\ last.fault /= "none")
        => /\ InRange(last.shown, DatabaseError)
           /\ last.raised = "none"

\* C9: setup_database run on a file that already holds the customers table (a
\* later start) raises no error and leaves the schema and the rows as they were.
C9_SetupIdempotent ==
    [][ (last'.op = "start" /\ last'.fault = "none" /\ db.schema /= NoTable)
        => /\ last'.outcome = "SetupDone"
           /\ last'.shown = <<>>
           /\ last'.raised = "none"
           /\ db'.schema = db.schema
           /\ db'.rows = db.rows ]_vars

C9_Witness ==
    /\ last.op = "start"
    /\ last.outcome = "SetupDone"
    /\ db.schema = CustomersSchema
    /\ Len(db.rows) >= 1

\* C10: no connection opened by setup_database or submit_data is still open when
\* the operation has ended, on the success path and on every failure path.
C10_NoOpenConnection == openConns = 0

C10_Witness ==
    /\ last.op = "submit"
    /\ last.fault = "execute"
    /\ last.outcome = "StoreFailed"
    /\ openConns = 0

====
